---- MODULE Spec2Model ----
\* Model of markples/utils: get_tests/get_tests.py (test-report comparator)
\* and gcbuild/gcbuild.py (EnvVars context manager used by run()).
\*
\* Python strings are sequences of one-character strings.  Times are kept in
\* tenths of a second (the inputs carry at most one fractional digit), ratios
\* are compared by cross-multiplication.  Python dicts keep insertion order:
\* a dict is [keys |-> <<k1, ..>>, val |-> [k \in {k1, ..} |-> ..]].
EXTENDS Integers, Sequences, FiniteSets, TLC

VARIABLES
  pc,        \* get(): position in the function body
  cmd_args,  \* get(): the argparse namespace
  idx,       \* get(): index into cmd_args.files of the loop at line 204
  tests1,    \* get(): group 1
  tests2,    \* get(): group 2
  tests,     \* get(): the local "tests" of the loop body (last loaded file)
  out,       \* stdout, one record per printed line
  call,      \* arguments of a direct call of load()
  ret,       \* the outcome of that call
  os_name,   \* os.name of the interpreter running gcbuild
  environ,   \* os.environ (the process environment)
  restore,   \* EnvVars.restore
  args,      \* gcbuild: the argparse namespace
  gpc        \* gcbuild run(): position

vars == <<pc, cmd_args, idx, tests1, tests2, tests, out, call, ret,
          os_name, environ, restore, args, gpc>>
getVars == <<pc, cmd_args, idx, tests1, tests2, tests, out>>
callVars == <<call, ret>>
envVars == <<os_name, environ, restore, args, gpc>>

None == "None"

-----------------------------------------------------------------------------
\* Bounds of the model

MaxEntries == 2      \* test elements per file in direct calls of load()
MaxParts == 3        \* pieces a raw name is built from (canonicalization)
MaxCanon == 2        \* entries of a canonicalization list
MaxFiles == 3        \* files on the command line of one get() run
MaxDiffEntries == 3  \* records per group for the differs
MaxTimeEntries == 2  \* records per group for the timing differ

-----------------------------------------------------------------------------
\* Python str operations

Range(s) == {s[i] : i \in 1..Len(s)}

\* code points, ascending (the characters the model uses)
Ascii == <<"BS", "-", ".", "0", "1", "2", "3", "4", "5", "6", "7", "8", "9",
           "A", "B", "C", "D", "E", "F", "G", "H", "I", "J", "K", "L", "M",
           "N", "O", "P", "Q", "R", "S", "T", "U", "V", "W", "X", "Y", "Z",
           "\\", "_",
           "a", "b", "c", "d", "e", "f", "g", "h", "i", "j", "k", "l", "m",
           "n", "o", "p", "q", "r", "s", "t", "u", "v", "w", "x", "y", "z">>

OrdOf == [c \in Range(Ascii) |-> CHOOSE i \in 1..Len(Ascii) : Ascii[i] = c]
Ord(c) == OrdOf[c]

FirstUpper == Ord("A")
FirstLower == Ord("a")

IsUpperChar(c) == Ord(c) >= FirstUpper /\ Ord(c) < FirstUpper + 26
IsLowerChar(c) == Ord(c) >= FirstLower /\ Ord(c) < FirstLower + 26

LowerOf ==
  [c \in Range(Ascii) |->
     IF IsUpperChar(c) THEN Ascii[Ord(c) - FirstUpper + FirstLower] ELSE c]
UpperOf ==
  [c \in Range(Ascii) |->
     IF IsLowerChar(c) THEN Ascii[Ord(c) - FirstLower + FirstUpper] ELSE c]

LowerChar(c) == LowerOf[c]
UpperChar(c) == UpperOf[c]

\* str.lower(), str.upper()
lower(s) == [i \in 1..Len(s) |-> LowerChar(s[i])]
upper(s) == [i \in 1..Len(s) |-> UpperChar(s[i])]

\* sub in s
Contains(sub, s) ==
  \E i \in 0..(Len(s) - Len(sub)) : SubSeq(s, i + 1, i + Len(sub)) = sub

\* s.endswith(suf)
endswith(s, suf) ==
  /\ Len(suf) <= Len(s)
  /\ SubSeq(s, Len(s) - Len(suf) + 1, Len(s)) = suf

\* s.replace(old, new): leftmost non-overlapping occurrences (old non-empty)
RECURSIVE replace(_, _, _)
replace(s, old, new) ==
  IF Len(s) < Len(old) THEN s
  ELSE IF SubSeq(s, 1, Len(old)) = old
       THEN new \o replace(SubSeq(s, Len(old) + 1, Len(s)), old, new)
       ELSE <<s[1]>> \o replace(Tail(s), old, new)

\* a < b for str (lexicographic by code point)
RECURSIVE StrLess(_, _)
StrLess(a, b) ==
  IF b = <<>> THEN FALSE
  ELSE IF a = <<>> THEN TRUE
  ELSE IF a[1] = b[1] THEN StrLess(Tail(a), Tail(b))
  ELSE Ord(a[1]) < Ord(b[1])

\* list(S).sort() for a set of str
RECURSIVE sorted(_)
sorted(S) ==
  IF S = {} THEN <<>>
  ELSE LET m == CHOOSE x \in S : \A y \in S \ {x} : StrLess(x, y)
       IN <<m>> \o sorted(S \ {m})

\* s.split(sep) for a one-character separator
RECURSIVE split(_, _)
split(s, sep) ==
  IF \A i \in 1..Len(s) : s[i] # sep THEN <<s>>
  ELSE LET p == CHOOSE i \in 1..Len(s) :
                  s[i] = sep /\ \A j \in 1..(i - 1) : s[j] # sep
       IN <<SubSeq(s, 1, p - 1)>> \o split(SubSeq(s, p + 1, Len(s)), sep)

\* sep.join(parts)
RECURSIVE join(_, _)
join(sep, parts) ==
  IF parts = <<>> THEN <<>>
  ELSE IF Len(parts) = 1 THEN parts[1]
  ELSE parts[1] \o sep \o join(sep, Tail(parts))

\* float(s): value in tenths, or ValueError.  Accepted here: an optional
\* sign, then digits with at most one "." and at least one digit; the first
\* fractional digit is kept.  (Exponents, inf/nan, blanks and underscores,
\* which float() also accepts, do not occur in the inputs.)
Digits == <<"0", "1", "2", "3", "4", "5", "6", "7", "8", "9">>
IsDigit(c) == \E i \in 1..10 : Digits[i] = c
DigitVal(c) == (CHOOSE i \in 1..10 : Digits[i] = c) - 1

RECURSIVE IntVal(_)
IntVal(s) ==
  IF s = <<>> THEN 0 ELSE IntVal(SubSeq(s, 1, Len(s) - 1)) * 10 + DigitVal(s[Len(s)])

float(s) ==
  LET signed == s # <<>> /\ s[1] \in {"-", "+"}
      u == IF signed THEN Tail(s) ELSE s
      sign == IF signed /\ s[1] = "-" THEN -1 ELSE 1
      dots == {i \in 1..Len(u) : u[i] = "."}
      wellformed == /\ \A i \in 1..Len(u) : IsDigit(u[i]) \/ u[i] = "."
                    /\ Cardinality(dots) <= 1
                    /\ \E i \in 1..Len(u) : IsDigit(u[i])
  IN IF ~wellformed THEN [ok |-> FALSE, error |-> "ValueError"]
     ELSE IF dots = {} THEN [ok |-> TRUE, val |-> sign * IntVal(u) * 10]
     ELSE LET p == CHOOSE i \in dots : TRUE
              frac == SubSeq(u, p + 1, Len(u))
          IN [ok |-> TRUE,
              val |-> sign * (IntVal(SubSeq(u, 1, p - 1)) * 10
                              + (IF frac = <<>> THEN 0 ELSE DigitVal(frac[1])))]

-----------------------------------------------------------------------------
\* dict helpers of get_tests.py

EmptyDict == [keys |-> <<>>, val |-> <<>>]

Has(d, k) == k \in DOMAIN d.val

\* d.setdefault(k, [])
setdefault(d, k) ==
  IF Has(d, k) THEN d
  ELSE [keys |-> Append(d.keys, k),
        val |-> [x \in DOMAIN d.val \cup {k} |-> IF x = k THEN <<>> ELSE d.val[x]]]

add_dict_list_item(d, k, v) ==
  LET e == setdefault(d, k)
  IN [e EXCEPT !.val[k] = Append(@, v)]

\* variant: d[k] = v
add_dict_list_list_assign(d, k, v) ==
  LET e == setdefault(d, k)
  IN [e EXCEPT !.val[k] = v]

add_dict_list_list(d, k, v) ==
  LET e == setdefault(d, k)
  IN [e EXCEPT !.val[k] = @ \o v]

RECURSIVE update_from(_, _, _)
update_from(d1, d2, i) ==
  IF i > Len(d2.keys) THEN d1
  ELSE update_from(add_dict_list_list(d1, d2.keys[i], d2.val[d2.keys[i]]), d2, i + 1)

update_dict_list(d1, d2) == update_from(d1, d2, 1)

RECURSIVE SumLen(_, _)
SumLen(d, i) ==
  IF i > Len(d.keys) THEN 0 ELSE Len(d.val[d.keys[i]]) + SumLen(d, i + 1)

test_count(list_tests) == SumLen(list_tests, 1)

-----------------------------------------------------------------------------
\* load()

BSL == "\\"
dll == <<".", "d", "l", "l">>
cmd == <<".", "c", "m", "d">>

\* variant: the extension test is "in" instead of endswith
normalized_contains(name) ==
  LET unescaped == replace(name, <<BSL, BSL>>, <<BSL>>)
      stripped == IF Contains(dll, unescaped) \/ Contains(cmd, unescaped)
                  THEN SubSeq(unescaped, 1, Len(unescaped) - 4)
                  ELSE unescaped
  IN lower(stripped)

\* lines 42-45: unescape, strip the extension, lowercase
normalized(name) ==
  LET unescaped == replace(name, <<BSL, BSL>>, <<BSL>>)
      stripped == IF endswith(unescaped, dll) \/ endswith(unescaped, cmd)
                  THEN SubSeq(unescaped, 1, Len(unescaped) - 4)
                  ELSE unescaped
  IN lower(stripped)

\* variant: canon_name in drop
dropped_eq(canon_name, drop) ==
  \E i \in 1..Len(drop) : drop[i] = canon_name

\* line 46: any(d in canon_name for d in drop)
dropped(canon_name, drop) ==
  \E i \in 1..Len(drop) : Contains(drop[i], canon_name)

\* lines 49-52: collapse to the first canonicalization entry contained
collapsed(canon_name, canon) ==
  IF \E i \in 1..Len(canon) : Contains(canon[i], canon_name)
  THEN canon[CHOOSE i \in 1..Len(canon) :
               /\ Contains(canon[i], canon_name)
               /\ \A j \in 1..(i - 1) : ~Contains(canon[j], canon_name)]
  ELSE canon_name

KeyError == [ok |-> FALSE, error |-> "KeyError"]
ValueError == [ok |-> FALSE, error |-> "ValueError"]

\* variant: the drop test comes after the collapse of lines 49-52
RECURSIVE load_from_late(_, _, _, _, _, _)
load_from_late(file, i, drop, canon, zero, acc) ==
  IF i > Len(file) THEN [ok |-> TRUE, tests |-> acc]
  ELSE LET attrib == file[i] IN
    IF "name" \notin DOMAIN attrib THEN KeyError
    ELSE LET name == attrib.name
             canon_name == collapsed(normalized(name), canon)
         IN IF dropped(canon_name, drop)
            THEN load_from_late(file, i + 1, drop, canon, zero, acc)
            ELSE IF zero
            THEN load_from_late(file, i + 1, drop, canon, zero,
                                add_dict_list_item(acc, canon_name, <<name, 0>>))
            ELSE IF "time" \notin DOMAIN attrib THEN KeyError
            ELSE IF ~float(attrib.time).ok THEN ValueError
            ELSE load_from_late(file, i + 1, drop, canon, zero,
                                add_dict_list_item(acc, canon_name,
                                                   <<name, float(attrib.time).val>>))

\* variant: the time attribute is read and parsed at the top of the loop body
RECURSIVE load_from_eager(_, _, _, _, _, _)
load_from_eager(file, i, drop, canon, zero, acc) ==
  IF i > Len(file) THEN [ok |-> TRUE, tests |-> acc]
  ELSE LET attrib == file[i] IN
    IF "name" \notin DOMAIN attrib THEN KeyError
    ELSE IF "time" \notin DOMAIN attrib THEN KeyError
    ELSE IF ~float(attrib.time).ok THEN ValueError
    ELSE LET name == attrib.name
             canon_name == normalized(name)
         IN IF dropped(canon_name, drop)
            THEN load_from_eager(file, i + 1, drop, canon, zero, acc)
            ELSE load_from_eager(file, i + 1, drop, canon, zero,
                                 add_dict_list_item(acc, collapsed(canon_name, canon),
                                   <<name, IF zero THEN 0 ELSE float(attrib.time).val>>))

\* the loop of lines 36-54, from element i on, with the dict built so far
RECURSIVE load_from(_, _, _, _, _, _)
load_from(file, i, drop, canon, zero, acc) ==
  IF i > Len(file) THEN [ok |-> TRUE, tests |-> acc]
  ELSE LET attrib == file[i] IN
    IF "name" \notin DOMAIN attrib THEN KeyError
    ELSE LET name == attrib.name
             canon_name == normalized(name)
         IN IF dropped(canon_name, drop)
            THEN load_from(file, i + 1, drop, canon, zero, acc)
            ELSE IF zero
            THEN load_from(file, i + 1, drop, canon, zero,
                           add_dict_list_item(acc, collapsed(canon_name, canon), <<name, 0>>))
            ELSE IF "time" \notin DOMAIN attrib THEN KeyError
            ELSE IF ~float(attrib.time).ok THEN ValueError
            ELSE load_from(file, i + 1, drop, canon, zero,
                           add_dict_list_item(acc, collapsed(canon_name, canon),
                                              <<name, float(attrib.time).val>>))

\* file: the parsed document, as the sequence of attrib dicts of root.iter('test')
load(file, drop, canon, zero) == load_from(file, 1, drop, canon, zero, EmptyDict)

\* line 55
load_line(r) ==
  [kind |-> "file", entries |-> Len(r.tests.keys), tests |-> test_count(r.tests)]

-----------------------------------------------------------------------------
\* Direct calls of load(): the inputs

Seqs(S, n) == UNION {[1..m -> S] : m \in 0..n}

\* raw names of the test elements
LoadNames ==
  { <<"a">>,
    <<"A", ".", "d", "l", "l">>,
    <<"a", "x">>,
    <<"b">>,
    <<"b", BSL, BSL, "a", ".", "c", "m", "d">> }

\* time attributes: a number, and text that is no number
LoadTimes == { <<"1", ".", "5">>, <<"x", "1">> }

LoadEntries ==
  [name : LoadNames, time : LoadTimes] \cup [name : LoadNames]
    \cup { [time |-> <<"1", ".", "5">>] }

LoadDrops == { <<>>, << <<"x">> >>, << <<"b">>, <<"x">> >> }
LoadCanons == { <<>>, << <<"a">> >>, << <<"a", "x">>, <<"a">> >> }

LoadCalls ==
  [file : Seqs(LoadEntries, MaxEntries), drop : LoadDrops, canon : LoadCanons,
   zero : BOOLEAN]

\* raw names built from pieces, for the canonicalization
Pieces == { <<"a">>, <<"B">>, <<BSL>>, dll, cmd, <<".", "D", "L", "L">> }

RECURSIVE concat(_)
concat(ps) == IF ps = <<>> THEN <<>> ELSE ps[1] \o concat(Tail(ps))

CanonNames == { concat(ps) : ps \in Seqs(Pieces, MaxParts) }

CanonPool == { <<"a">>, <<"a", ".", "d", "l", "l">>, <<BSL, BSL>> }

zero_time == <<"0">>

CanonCalls ==
  [file : { <<[name |-> n, time |-> zero_time]>> : n \in CanonNames },
   drop : { <<>> }, canon : Seqs(CanonPool, MaxCanon), zero : {FALSE}]

GetIdle ==
  /\ pc = "idle" /\ cmd_args = None /\ idx = 0
  /\ tests1 = EmptyDict /\ tests2 = EmptyDict /\ tests = EmptyDict /\ out = <<>>

CallIdle == call = None /\ ret = [stage |-> "none"]

EnvIdle ==
  /\ os_name = None /\ environ = <<>> /\ restore = [set |-> FALSE] /\ args = None
  /\ gpc = "idle"

InitLoad ==
  /\ call \in LoadCalls \cup CanonCalls
  /\ ret = [stage |-> "none"]
  /\ GetIdle /\ EnvIdle

\* load(file, drop, canon, zero)
Load ==
  /\ ret.stage = "none"
  /\ ret' = [stage |-> "loaded",
             r |-> load(call.file, call.drop, call.canon, call.zero)]
  /\ UNCHANGED <<call, getVars, envVars>>

\* every key of the result is given to load() again as a raw name
Reload ==
  /\ ret.stage = "loaded"
  /\ ret.r.ok
  /\ ret' = [stage |-> "reloaded", r |-> ret.r,
             again |-> [k \in DOMAIN ret.r.tests.val |->
                          load(<<[name |-> k, time |-> zero_time]>>, <<>>,
                               call.canon, FALSE)]]
  /\ UNCHANGED <<call, getVars, envVars>>

NextLoad == Load \/ Reload

SpecLoad == InitLoad /\ [][NextLoad]_vars

-----------------------------------------------------------------------------
\* print_diff(), print_time_diff()

\* variant: len(v1) >= len(v2)
RECURSIVE print_diff_from_ge(_, _, _, _, _)
print_diff_from_ge(keys1, i, t1, t2, label) ==
  IF i > Len(keys1) THEN <<>>
  ELSE LET k == keys1[i]
           rest == print_diff_from_ge(keys1, i + 1, t1, t2, label)
       IN IF ~Has(t2, k)
          THEN <<[kind |-> "only in", label |-> label, key |-> k]>> \o rest
          ELSE IF Len(t1.val[k]) >= Len(t2.val[k])
          THEN <<[kind |-> "more in", label |-> label, key |-> k,
                  n1 |-> Len(t1.val[k]), n2 |-> Len(t2.val[k])]>> \o rest
          ELSE rest

RECURSIVE print_diff_from(_, _, _, _, _)
print_diff_from(keys1, i, t1, t2, label) ==
  IF i > Len(keys1) THEN <<>>
  ELSE LET k == keys1[i]
           rest == print_diff_from(keys1, i + 1, t1, t2, label)
       IN IF ~Has(t2, k)
          THEN <<[kind |-> "only in", label |-> label, key |-> k]>> \o rest
          ELSE IF Len(t1.val[k]) > Len(t2.val[k])
          THEN <<[kind |-> "more in", label |-> label, key |-> k,
                  n1 |-> Len(t1.val[k]), n2 |-> Len(t2.val[k])]>> \o rest
          ELSE rest

\* the lines print_diff(tests1, tests2, label) prints
print_diff(t1, t2, label) ==
  print_diff_from(sorted(DOMAIN t1.val), 1, t1, t2, label)

\* sum(p[1] for p in records)
RECURSIVE sum_times(_)
sum_times(records) ==
  IF records = <<>> THEN 0 ELSE records[1][2] + sum_times(Tail(records))

inf == [inf |-> TRUE]

\* variant: 0 if v2 == 0 else v1/v2
ratio_of_zero(v1, v2) ==
  IF v2 = 0 THEN [inf |-> FALSE, num |-> 0, den |-> 1]
  ELSE [inf |-> FALSE, num |-> v1, den |-> v2]

\* float('inf') if v2 == 0 else v1/v2, kept as a fraction
ratio_of(v1, v2) ==
  IF v2 = 0 THEN inf ELSE [inf |-> FALSE, num |-> v1, den |-> v2]

\* ratio > time_ratio, time_ratio in tenths
ratio_gt(ratio, time_ratio) ==
  IF ratio.inf THEN TRUE
  ELSE IF ratio.den > 0 THEN ratio.num * 10 > time_ratio * ratio.den
  ELSE ratio.num * 10 < time_ratio * ratio.den

\* line 79; v1, v2 in tenths, time_abs in seconds
slower(v1, v2, time_abs, time_ratio) ==
  v1 - v2 > time_abs * 10 \/ ratio_gt(ratio_of(v1, v2), time_ratio)

RECURSIVE print_time_diff_from(_, _, _, _, _, _, _)
print_time_diff_from(keys, i, t1, t2, label, time_abs, time_ratio) ==
  IF i > Len(keys) THEN <<>>
  ELSE LET k == keys[i]
           v1 == sum_times(t1.val[k])
           v2 == sum_times(t2.val[k])
           rest == print_time_diff_from(keys, i + 1, t1, t2, label, time_abs, time_ratio)
       IN IF slower(v1, v2, time_abs, time_ratio)
          THEN <<[kind |-> "slower in", label |-> label, key |-> k,
                  v1 |-> v1, v2 |-> v2, ratio |-> ratio_of(v1, v2)]>> \o rest
          ELSE rest

\* the lines print_time_diff(tests1, tests2, label, time_abs, time_ratio) prints
print_time_diff(t1, t2, label, time_abs, time_ratio) ==
  print_time_diff_from(sorted(DOMAIN t1.val \cap DOMAIN t2.val), 1, t1, t2, label,
                       time_abs, time_ratio)

\* sum(sum(t[1] for t in v) for v in tests.values())
RECURSIVE total_from(_, _)
total_from(d, i) ==
  IF i > Len(d.keys) THEN 0 ELSE sum_times(d.val[d.keys[i]]) + total_from(d, i + 1)

total_time(d) == total_from(d, 1)

-----------------------------------------------------------------------------
\* group_test_by_directory(), print_grouped_by_dir()

\* parts[:-2] and parts[-2:]
but_last_two(parts) ==
  IF Len(parts) <= 2 THEN <<>> ELSE SubSeq(parts, 1, Len(parts) - 2)
last_two(parts) ==
  IF Len(parts) <= 2 THEN parts ELSE SubSeq(parts, Len(parts) - 1, Len(parts))

test_dir_of(test_name) == join(<<BSL>>, but_last_two(split(test_name, BSL)))
short_name_of(test_name) == join(<<BSL>>, last_two(split(test_name, BSL)))

\* d[k] = v for a key that may be new
dict_set(d, k, v) ==
  [keys |-> IF Has(d, k) THEN d.keys ELSE Append(d.keys, k),
   val |-> [x \in DOMAIN d.val \cup {k} |-> IF x = k THEN v ELSE d.val[x]]]

RECURSIVE group_from(_, _, _)
group_from(t, i, tests_by_dir) ==
  IF i > Len(t.keys) THEN tests_by_dir
  ELSE LET test_name == t.keys[i]
           test_dir == test_dir_of(test_name)
           created == IF Has(tests_by_dir, test_dir) THEN tests_by_dir
                      ELSE dict_set(tests_by_dir, test_dir, EmptyDict)
       IN group_from(t, i + 1,
            dict_set(created, test_dir,
                     dict_set(created.val[test_dir], test_name, t.val[test_name])))

group_test_by_directory(t) == group_from(t, 1, EmptyDict)

\* line 135
same_count(test_name, t, t2) ==
  Has(t, test_name) /\ Has(t2, test_name)
    /\ Len(t.val[test_name]) = Len(t2.val[test_name])

\* lines 141-152
RECURSIVE block_lines(_, _, _, _)
block_lines(names, i, t, t2) ==
  IF i > Len(names) THEN <<>>
  ELSE LET test_name == names[i]
           short_name == short_name_of(test_name)
           rest == block_lines(names, i + 1, t, t2)
       IN IF Has(t, test_name)
          THEN IF Has(t2, test_name)
               THEN (IF Len(t.val[test_name]) > Len(t2.val[test_name])
                     THEN <<[kind |-> "More in 1", short |-> short_name,
                             n1 |-> Len(t.val[test_name]), n2 |-> Len(t2.val[test_name])]>>
                     ELSE <<>>)
                    \o (IF Len(t.val[test_name]) < Len(t2.val[test_name])
                        THEN <<[kind |-> "More in 2", short |-> short_name,
                                n1 |-> Len(t.val[test_name]), n2 |-> Len(t2.val[test_name])]>>
                        ELSE <<>>)
                    \o rest
               ELSE <<[kind |-> "Only in 1", short |-> short_name]>> \o rest
          ELSE IF Has(t2, test_name)
          THEN <<[kind |-> "Only in 2", short |-> short_name]>> \o rest
          ELSE rest

\* the loop of lines 129-152, from the i-th directory of testsgroup1 on
RECURSIVE grouped_from(_, _, _)
grouped_from(testsgroup1, testsgroup2, i) ==
  IF i > Len(testsgroup1.keys) THEN <<>>
  ELSE LET directory_name == testsgroup1.keys[i]
           t == testsgroup1.val[directory_name]
           t2 == IF Has(testsgroup2, directory_name)
                 THEN testsgroup2.val[directory_name] ELSE EmptyDict
           all_distinct_tests == sorted(DOMAIN t.val \cup DOMAIN t2.val)
           found == \E n \in 1..Len(all_distinct_tests) :
                      ~same_count(all_distinct_tests[n], t, t2)
           rest == grouped_from(testsgroup1, testsgroup2, i + 1)
       IN IF ~found THEN rest
          ELSE <<[kind |-> "Directory", dir |-> directory_name]>>
                 \o block_lines(all_distinct_tests, 1, t, t2) \o rest

\* the lines print_grouped_by_dir(tests1, tests2) prints
print_grouped_by_dir(t1, t2) ==
  grouped_from(group_test_by_directory(t1), group_test_by_directory(t2), 1)

-----------------------------------------------------------------------------
\* get()

il_conformance == <<"i", "l", "_", "c", "o", "n", "f", "o", "r", "m", "a", "n", "c", "e">>
runtime_81018 == <<"r", "u", "n", "t", "i", "m", "e", "_", "8", "1", "0", "1", "8">>
runtime_81019 == <<"r", "u", "n", "t", "i", "m", "e", "_", "8", "1", "0", "1", "9">>
runtime_81081 == <<"r", "u", "n", "t", "i", "m", "e", "_", "8", "1", "0", "8", "1">>
b598031 == <<"b", "5", "9", "8", "0", "3", "1">>
github_26491 == <<"g", "i", "t", "h", "u", "b", "_", "2", "6", "4", "9", "1">>
\* 'JIT\Regression\CLR-x86-JIT\V2.0-Beta2\b323557': "\b" is the backspace escape
b323557 == <<"J", "I", "T", BSL, "R", "e", "g", "r", "e", "s", "s", "i", "o", "n", BSL, "C", "L", "R", "-", "x", "8", "6", "-", "J", "I", "T", BSL, "V", "2", ".", "0", "-", "B", "e", "t", "a", "2", "BS", "3", "2", "3", "5", "5", "7">>

configs ==
  << [drop1 |-> <<il_conformance>>,
      drop2 |-> <<runtime_81018, runtime_81019, runtime_81081>>,
      canon |-> <<b598031, github_26491, b323557>>],
     [drop1 |-> <<>>, drop2 |-> <<>>, canon |-> <<>>] >>

\* line 197
config == configs[IF cmd_args.b THEN 2 ELSE 1]

\* variant: time_abs is left as given
ZeroFirst_keep ==
  /\ pc = "parsed"
  /\ pc' = "load1"
  /\ UNCHANGED <<cmd_args, idx, tests1, tests2, tests, out, callVars, envVars>>

\* lines 194-195
ZeroFirst ==
  /\ pc = "parsed"
  /\ cmd_args' = IF cmd_args.zero_first THEN [cmd_args EXCEPT !.time_abs = 0]
                 ELSE cmd_args
  /\ pc' = "load1"
  /\ UNCHANGED <<idx, tests1, tests2, tests, out, callVars, envVars>>

\* line 202 (and line 203); an exception of load() ends the run
Load1 ==
  /\ pc = "load1"
  /\ LET r == load(cmd_args.files[1], config.drop1, config.canon, cmd_args.zero_first)
     IN IF r.ok
        THEN /\ tests1' = r.tests
             /\ out' = Append(out, load_line(r))
             /\ pc' = "load2"
        ELSE /\ pc' = "error"
             /\ UNCHANGED <<tests1, out>>
  /\ idx' = 2
  /\ UNCHANGED <<cmd_args, tests2, tests, callVars, envVars>>

\* one pass of the loop of lines 204-206
Load2 ==
  /\ pc = "load2"
  /\ idx <= Len(cmd_args.files)
  /\ LET r == load(cmd_args.files[idx], config.drop2, config.canon, FALSE)
     IN IF r.ok
        THEN /\ tests' = r.tests
             /\ tests2' = update_dict_list(tests2, r.tests)
             /\ out' = Append(out, load_line(r))
             /\ idx' = idx + 1
             /\ pc' = "load2"
        ELSE /\ pc' = "error"
             /\ UNCHANGED <<tests, tests2, out, idx>>
  /\ UNCHANGED <<cmd_args, tests1, callVars, envVars>>

\* lines 207-208
PrintCounts ==
  /\ pc = "load2"
  /\ idx > Len(cmd_args.files)
  /\ out' = out \o
       <<[kind |-> "group", label |-> "1", entries |-> Len(tests1.keys),
          tests |-> test_count(tests1)],
         [kind |-> "group", label |-> "2", entries |-> Len(tests2.keys),
          tests |-> test_count(tests2)]>>
  /\ pc' = "diff"
  /\ UNCHANGED <<cmd_args, idx, tests1, tests2, tests, callVars, envVars>>

\* lines 220-221
PrintGrouped ==
  /\ pc = "diff"
  /\ cmd_args.group
  /\ out' = out \o print_grouped_by_dir(tests1, tests2)
  /\ pc' = "time"
  /\ UNCHANGED <<cmd_args, idx, tests1, tests2, tests, callVars, envVars>>

\* lines 222-224
PrintFlat ==
  /\ pc = "diff"
  /\ ~cmd_args.group
  /\ out' = out \o print_diff(tests1, tests2, "1") \o print_diff(tests2, tests1, "2")
  /\ pc' = "time"
  /\ UNCHANGED <<cmd_args, idx, tests1, tests2, tests, callVars, envVars>>

\* lines 227-231
PrintTimes ==
  /\ pc = "time"
  /\ cmd_args.time
  /\ out' = out
       \o print_time_diff(tests1, tests2, "1", cmd_args.time_abs, cmd_args.time_ratio)
       \o print_time_diff(tests2, tests1, "2", cmd_args.time_abs, cmd_args.time_ratio)
       \o <<[kind |-> "Total in", label |-> "1", total |-> total_time(tests1)],
            [kind |-> "Total in", label |-> "2", total |-> total_time(tests2)]>>
  /\ pc' = "done"
  /\ UNCHANGED <<cmd_args, idx, tests1, tests2, tests, callVars, envVars>>

\* line 227 with cmd_args.time false: get() returns
Return ==
  /\ pc = "time"
  /\ ~cmd_args.time
  /\ pc' = "done"
  /\ UNCHANGED <<cmd_args, idx, tests1, tests2, tests, out, callVars, envVars>>

\* the state after parse_args (line 193)
Parsed(namespaces) ==
  /\ cmd_args \in namespaces
  /\ pc = "parsed"
  /\ idx = 0
  /\ tests1 = EmptyDict /\ tests2 = EmptyDict /\ tests = EmptyDict
  /\ out = <<>>
  /\ CallIdle /\ EnvIdle

-----------------------------------------------------------------------------
\* Runs of get(): the command lines

default_time_abs == 3     \* --time-abs, seconds
default_time_ratio == 15  \* --time-ratio 1.5, in tenths

\* test elements of the report files
e_t1 == [name |-> <<"a", BSL, "b", BSL, "t", "1", ".", "d", "l", "l">>, time |-> <<"1", ".", "0">>]
e_T1 == [name |-> <<"A", BSL, BSL, "B", BSL, BSL, "T", "1", ".", "c", "m", "d">>, time |-> <<"0", ".", "5">>]
e_b == [name |-> <<"x", BSL, "b", "5", "9", "8", "0", "3", "1", BSL, "t", ".", "d", "l", "l">>, time |-> <<"2", ".", "0">>]
e_il == [name |-> <<"i", "l", "_", "c", "o", "n", "f", "o", "r", "m", "a", "n", "c", "e", BSL, "t">>, time |-> <<"1", ".", "0">>]
e_rt == [name |-> <<"r", "u", "n", "t", "i", "m", "e", "_", "8", "1", "0", "1", "8">>, time |-> <<"x">>]
e_zero == [name |-> <<"a", BSL, "b", BSL, "t", "1">>, time |-> <<"0">>]
e_noname == [time |-> <<"1", ".", "0">>]

\* report files
GetDocs ==
  { <<>>, <<e_t1, e_T1>>, <<e_b, e_il>>, <<e_rt>>, <<e_zero>>, <<e_noname>> }

NonEmptySeqs(S, n) == UNION {[1..m -> S] : m \in 1..n}

GetArgs ==
  [b : BOOLEAN, group : BOOLEAN, time : BOOLEAN, zero_first : BOOLEAN,
   time_abs : {default_time_abs}, time_ratio : {default_time_ratio},
   files : NonEmptySeqs(GetDocs, MaxFiles)]
  \cup
  [b : {FALSE}, group : {FALSE}, time : {TRUE}, zero_first : BOOLEAN,
   time_abs : {1}, time_ratio : {0},
   files : NonEmptySeqs(GetDocs, MaxFiles)]

Init == Parsed(GetArgs)

Next ==
  \/ ZeroFirst \/ Load1 \/ Load2 \/ PrintCounts
  \/ PrintGrouped \/ PrintFlat \/ PrintTimes \/ Return

Spec == Init /\ [][Next]_vars

\* two groups of one file each, over keys of two directories
DiffNames == { <<"a", BSL, "b", BSL, "t", "1">>, <<"a", BSL, "c", BSL, "t", "2">>, <<"c", BSL, "d", BSL, "t", "1">> }
DiffEntries == [name : DiffNames, time : { <<"1">> }]

DiffArgs ==
  [b : {FALSE}, group : BOOLEAN, time : {FALSE}, zero_first : {FALSE},
   time_abs : {default_time_abs}, time_ratio : {default_time_ratio},
   files : [1..2 -> Seqs(DiffEntries, MaxDiffEntries)]]

InitDiff == Parsed(DiffArgs)

NextDiff ==
  \/ ZeroFirst \/ Load1 \/ Load2 \/ PrintCounts
  \/ PrintGrouped \/ PrintFlat \/ Return

SpecDiff == InitDiff /\ [][NextDiff]_vars

\* two groups of one file each, with times
TimeEntries ==
  [name : { <<"a", BSL, "b", BSL, "t", "1">> }, time : { <<"0">>, <<"1", ".", "0">>, <<"2", ".", "5">> }]
    \cup { [name |-> <<"a", BSL, "c", BSL, "t", "2">>, time |-> <<"1", ".", "0">>] }

TimeArgs ==
  [b : {FALSE}, group : {FALSE}, time : {TRUE}, zero_first : {FALSE},
   time_abs : {default_time_abs, 1}, time_ratio : {default_time_ratio, 30},
   files : [1..2 -> Seqs(TimeEntries, MaxTimeEntries)]]

InitTime == Parsed(TimeArgs)

NextTime ==
  \/ ZeroFirst \/ Load1 \/ Load2 \/ PrintCounts \/ PrintFlat \/ PrintTimes

SpecTime == InitTime /\ [][NextTime]_vars

-----------------------------------------------------------------------------
\* gcbuild.py: EnvVars and run()

\* os.environ: on Windows ("nt") the keys are stored uppercased, and every
\* get, set and delete uppercases its key; elsewhere keys are taken as given
encodekey(k) == IF os_name = "nt" THEN upper(k) ELSE k

\* os.environ[k] = v
env_set(env, k, v) ==
  [x \in DOMAIN env \cup {encodekey(k)} |-> IF x = encodekey(k) THEN v ELSE env[x]]

\* del os.environ[k]
env_del(env, k) == [x \in DOMAIN env \ {encodekey(k)} |-> env[x]]

\* k in os.environ
env_has(env, k) == encodekey(k) \in DOMAIN env

\* dict.get(k) of a plain dict
dict_get(d, k) == IF k \in DOMAIN d THEN [some |-> TRUE, v |-> d[k]] ELSE [some |-> FALSE]

complus_gcname == <<"c", "o", "m", "p", "l", "u", "s", "_", "g", "c", "n", "a", "m", "e">>

\* line 112
gc_name == <<"c", "l", "r", "g", "c", "e", "x", "p", "_">> \o args.save_name \o dll

\* line 116: EnvVars(complus_gcname = gc_name).vars, as (k, v) pairs
env_vars == << <<complus_gcname, [some |-> TRUE, v |-> gc_name]>> >>

\* _update_os_env(k, v) for the pairs kv[i..]; del of a missing key raises
RECURSIVE update_os_env_from(_, _, _)
update_os_env_from(env, kv, i) ==
  IF i > Len(kv) THEN [ok |-> TRUE, env |-> env]
  ELSE LET k == kv[i][1]
           v == kv[i][2]
       IN IF v.some
          THEN update_os_env_from(env_set(env, k, v.v), kv, i + 1)
          ELSE IF env_has(env, k)
          THEN update_os_env_from(env_del(env, k), kv, i + 1)
          ELSE [ok |-> FALSE, env |-> env]

\* line 101 with args.run empty or None
SkipRun ==
  /\ gpc = "run"
  /\ args.run = {}
  /\ gpc' = "returned"
  /\ UNCHANGED <<os_name, environ, restore, args, getVars, callVars>>

\* line 102: setup_run(args), which may fail to copy the GC, then __enter__
Enter ==
  /\ gpc = "run"
  /\ args.run # {}
  /\ \E copied \in BOOLEAN :
       IF copied
       THEN LET r == update_os_env_from(environ, env_vars, 1)
            IN /\ restore' = [set |-> TRUE, dict |-> environ]
               /\ environ' = r.env
               /\ gpc' = IF r.ok THEN "rf" ELSE "raised"
       ELSE /\ gpc' = "raised"
            /\ UNCHANGED <<environ, restore>>
  /\ UNCHANGED <<os_name, args, getVars, callVars>>

\* one of lines 103-108: the harness runs if selected, and may raise
Harness(h, then) ==
  IF h \in args.run
  THEN \E raises \in BOOLEAN : gpc' = IF raises THEN "raising" ELSE then
  ELSE gpc' = then

\* lines 103-104
RunRf ==
  /\ gpc = "rf"
  /\ Harness("rf", "micro")
  /\ UNCHANGED <<os_name, environ, restore, args, getVars, callVars>>

\* lines 105-106
RunMicro ==
  /\ gpc = "micro"
  /\ Harness("micro", "asp")
  /\ UNCHANGED <<os_name, environ, restore, args, getVars, callVars>>

\* lines 107-108
RunAsp ==
  /\ gpc = "asp"
  /\ Harness("asp", "leaving")
  /\ UNCHANGED <<os_name, environ, restore, args, getVars, callVars>>

\* __exit__ (lines 24-27); it returns None, so an exception goes on
Exit ==
  /\ gpc \in {"leaving", "raising"}
  /\ LET kv == [i \in 1..Len(env_vars) |->
                  <<env_vars[i][1], dict_get(restore.dict, env_vars[i][1])>>]
         r == update_os_env_from(environ, kv, 1)
     IN /\ environ' = r.env
        /\ gpc' = IF r.ok /\ gpc = "leaving" THEN "returned" ELSE "raised"
  /\ UNCHANGED <<os_name, restore, args, getVars, callVars>>

\* the process environment gcbuild is started in
old_gc == <<"c", "l", "r", "g", "c", ".", "d", "l", "l">>
PATH == <<"P", "A", "T", "H">>
path_value == <<"C", ":", BSL, "b", "i", "n">>

StartEnvs ==
  LET names == IF os_name = "nt" THEN {upper(complus_gcname), PATH}
               ELSE {complus_gcname, upper(complus_gcname), PATH}
  IN UNION {[S -> {old_gc, path_value}] : S \in SUBSET names}

InitEnv ==
  /\ os_name \in {"nt", "posix"}
  /\ environ \in StartEnvs
  /\ restore = [set |-> FALSE]
  /\ args \in [run : SUBSET {"rf", "micro", "asp"}, save_name : { <<"s", "1">> }]
  /\ gpc = "run"
  /\ GetIdle /\ CallIdle

NextEnv == SkipRun \/ Enter \/ RunRf \/ RunMicro \/ RunAsp \/ Exit

SpecEnv == InitEnv /\ [][NextEnv]_vars

-----------------------------------------------------------------------------
\* Properties of load()

\* d occurs in k as a contiguous run of characters
IsSubstring(d, k) ==
  \E i \in 1..(Len(k) + 1) : \E j \in (i - 1)..Len(k) :
     [n \in 1..(j - i + 1) |-> k[i + n - 1]] = d

\* k ends with the characters of suf
EndsIn(k, suf) ==
  /\ Len(k) >= Len(suf)
  /\ \A n \in 1..Len(suf) : k[Len(k) - Len(suf) + n] = suf[n]

HasDrop(k, drop) == \E d \in Range(drop) : IsSubstring(d, k)

LoadReturned == ret.stage # "none" /\ ret.r.ok

Entry(i) == call.file[i]
PreKey(i) == normalized(Entry(i).name)
FinalKey(i) == collapsed(PreKey(i), call.canon)

\* C1: no key of the Test Group returned by load() contains a substring of
\* the drop list of that call, however many records map to the key, also when
\* the key is a canonicalization-list entry.
DropFilterExclusivity ==
  LoadReturned =>
    \A k \in DOMAIN ret.r.tests.val : ~HasDrop(k, call.drop)

\* C1 witness: a call that dropped an element and kept a key that is a
\* canonicalization-list entry.
DropFilterWitness ==
  /\ LoadReturned
  /\ call.drop # <<>>
  /\ test_count(ret.r.tests) < Len(call.file)
  /\ \E k \in DOMAIN ret.r.tests.val : k \in Range(call.canon)

\* C2 as stated: an element is discarded iff its final (collapsed) key
\* contains a drop substring.
DropDecidedOnFinalKey ==
  LoadReturned =>
    LET kept == {i \in 1..Len(call.file) : ~HasDrop(FinalKey(i), call.drop)}
    IN /\ DOMAIN ret.r.tests.val = {FinalKey(i) : i \in kept}
       /\ \A k \in DOMAIN ret.r.tests.val :
            Len(ret.r.tests.val[k]) = Cardinality({i \in kept : FinalKey(i) = k})

\* C2 amended: an element is discarded iff its unescaped, extension-stripped,
\* lowercased name, before the collapse to a canonicalization-list entry,
\* contains a drop substring; the kept elements are filed under the collapsed key.
DropDecidedBeforeCollapse ==
  LoadReturned =>
    LET kept == {i \in 1..Len(call.file) : ~HasDrop(PreKey(i), call.drop)}
    IN /\ DOMAIN ret.r.tests.val = {FinalKey(i) : i \in kept}
       /\ \A k \in DOMAIN ret.r.tests.val :
            Len(ret.r.tests.val[k]) = Cardinality({i \in kept : FinalKey(i) = k})

\* C2 witness: an element whose name contains a drop substring and whose
\* collapsed key does not.
DropBeforeCollapseWitness ==
  /\ LoadReturned
  /\ \E i \in 1..Len(call.file) :
       HasDrop(PreKey(i), call.drop) /\ ~HasDrop(FinalKey(i), call.drop)

Malformed(attrib) ==
  \/ "name" \notin DOMAIN attrib
  \/ "time" \notin DOMAIN attrib
  \/ ~float(attrib.time).ok

\* C7 as stated: a file with a malformed test element makes load() fail,
\* whatever the drop list, the canonicalization list and the zero flag.
MalformedAlwaysFatal ==
  (ret.stage # "none" /\ \E i \in 1..Len(call.file) : Malformed(Entry(i)))
    => ~ret.r.ok

\* C7 amended: load() fails exactly when an element lacks the name attribute,
\* or zero is false and an element whose normalized name contains no drop
\* substring lacks time or has a non-numeric time.
MalformedFatalWhenRead ==
  ret.stage # "none" =>
    (~ret.r.ok <=>
       \E i \in 1..Len(call.file) :
         \/ "name" \notin DOMAIN Entry(i)
         \/ /\ ~call.zero
            /\ ~HasDrop(PreKey(i), call.drop)
            /\ ("time" \notin DOMAIN Entry(i) \/ ~float(Entry(i).time).ok))

\* C7 witness: load() failed on a non-numeric time while an earlier element
\* of the same file was dropped.
MalformedFatalWitness ==
  /\ ret.stage # "none"
  /\ ~ret.r.ok
  /\ ret.r.error = "ValueError"
  /\ Len(call.file) = 2
  /\ "name" \in DOMAIN Entry(1)
  /\ HasDrop(PreKey(1), call.drop)

\* C8 as stated: the canonical key of a canonical key is that key.
CanonIdempotent ==
  ret.stage = "reloaded" =>
    \A k \in DOMAIN ret.again : ret.again[k].tests.keys = <<k>>

\* C8 amended: the canonical key of a canonical key k is k exactly when k holds
\* no doubled backslash and does not end with .dll or .cmd.
CanonIdempotentUnlessReducible ==
  ret.stage = "reloaded" =>
    \A k \in DOMAIN ret.again :
      (ret.again[k].tests.keys = <<k>>) <=>
        /\ ~IsSubstring(<<BSL, BSL>>, k)
        /\ ~EndsIn(k, dll)
        /\ ~EndsIn(k, cmd)

\* C8 witness: a name with an extension that collapsed to a canonicalization
\* entry, whose key is derived again unchanged.
CanonIdempotentWitness ==
  /\ ret.stage = "reloaded"
  /\ \E i \in 1..Len(call.file) :
       /\ endswith(Entry(i).name, dll)
       /\ FinalKey(i) \in Range(call.canon)
       /\ FinalKey(i) \in DOMAIN ret.again
       /\ ret.again[FinalKey(i)].tests.keys = <<FinalKey(i)>>

-----------------------------------------------------------------------------
\* Properties of get() and of the differs

\* the files of group 2 read so far have all been loaded and merged
Merged == pc \in {"load2", "diff", "time", "done"}

Loaded2(f) == load(cmd_args.files[f], config.drop2, config.canon, FALSE).tests

RECURSIVE CatRecords(_, _, _)
CatRecords(k, f, last) ==
  IF f > last THEN <<>>
  ELSE (IF k \in DOMAIN Loaded2(f).val THEN Loaded2(f).val[k] ELSE <<>>)
         \o CatRecords(k, f + 1, last)

RECURSIVE SumFileLines(_, _)
SumFileLines(f, last) ==
  IF f > last THEN 0 ELSE out[f].tests + SumFileLines(f + 1, last)

\* C3: merging is additive: under every key, group 2 holds the records of the
\* files merged so far, file after file and in each file's order; no other
\* key exists; the printed test count of group 2 is the sum of the counts
\* printed for its files.
MergeAdditivity ==
  Merged =>
    /\ DOMAIN tests2.val = UNION {DOMAIN Loaded2(f).val : f \in 2..(idx - 1)}
    /\ \A k \in DOMAIN tests2.val : tests2.val[k] = CatRecords(k, 2, idx - 1)
    /\ pc = "diff" => out[Len(out)].tests = SumFileLines(2, idx - 1)

\* C3 witness: two files merged into group 2 that share a key.
MergeWitness ==
  /\ pc = "diff"
  /\ Len(cmd_args.files) = 3
  /\ \E k \in DOMAIN Loaded2(2).val \cap DOMAIN Loaded2(3).val :
       Len(tests2.val[k]) >= 3
  /\ Loaded2(2) # Loaded2(3)

Count(t, k) == IF k \in DOMAIN t.val THEN Len(t.val[k]) ELSE 0

FlatLines(k) ==
  {j \in 1..Len(out) : out[j].kind \in {"only in", "more in"} /\ out[j].key = k}

FlatDone == pc \in {"time", "done"} /\ ~cmd_args.group

\* C4: print_diff(A, B, '1') then print_diff(B, A, '2') prints exactly one
\* finding for every key whose presence or count differs, for the group that
\* alone has the key or has more of it, and nothing for a key with equal counts.
DifferSymmetry ==
  FlatDone =>
    /\ \A j \in 1..Len(out) :
         out[j].kind \in {"only in", "more in"}
           => out[j].key \in DOMAIN tests1.val \cup DOMAIN tests2.val
    /\ \A k \in DOMAIN tests1.val \cup DOMAIN tests2.val :
         LET n1 == Count(tests1, k)
             n2 == Count(tests2, k)
             big == IF n1 > n2 THEN "1" ELSE "2"
         IN IF n1 = n2 THEN FlatLines(k) = {}
            ELSE /\ Cardinality(FlatLines(k)) = 1
                 /\ \A j \in FlatLines(k) :
                      /\ out[j].label = big
                      /\ out[j].kind =
                           (IF k \in DOMAIN tests1.val /\ k \in DOMAIN tests2.val
                            THEN "more in" ELSE "only in")

\* C4 witness: a key only in group 1, a key with more records in group 2 and
\* a key with equal counts.
DifferWitness ==
  /\ FlatDone
  /\ \E k \in DOMAIN tests1.val : k \notin DOMAIN tests2.val
  /\ \E k \in DOMAIN tests1.val \cap DOMAIN tests2.val :
       Len(tests1.val[k]) < Len(tests2.val[k])
  /\ \E k \in DOMAIN tests1.val \cap DOMAIN tests2.val :
       Len(tests1.val[k]) = Len(tests2.val[k])

GroupedDone == pc \in {"time", "done"} /\ cmd_args.group

Keys12 == DOMAIN tests1.val \cup DOMAIN tests2.val

\* the directory whose block line j of the output belongs to
BlockDir(j) ==
  LET heads == {i \in 1..j : out[i].kind = "Directory"}
  IN out[CHOOSE i \in heads : \A h \in heads : h <= i].dir

\* what the flat differ says of key k
Annotation(k) ==
  IF k \notin DOMAIN tests2.val THEN "Only in 1"
  ELSE IF k \notin DOMAIN tests1.val THEN "Only in 2"
  ELSE IF Count(tests1, k) > Count(tests2, k) THEN "More in 1"
  ELSE "More in 2"

\* C5 as stated: print_grouped_by_dir prints a block for a directory iff the
\* directory occurs in either input and one of its keys differs in presence
\* or count; every key the flat differ reports is reported in its block with
\* the same annotation.
GroupedCoversEitherInput ==
  GroupedDone =>
    /\ \A k \in Keys12 :
         (\E j \in 1..Len(out) :
            out[j].kind = "Directory" /\ out[j].dir = test_dir_of(k))
         <=> (\E m \in Keys12 :
                test_dir_of(m) = test_dir_of(k) /\ Count(tests1, m) # Count(tests2, m))
    /\ \A k \in Keys12 :
         Count(tests1, k) # Count(tests2, k) =>
           \E j \in 1..Len(out) :
             /\ out[j].kind = Annotation(k)
             /\ out[j].short = short_name_of(k)
             /\ BlockDir(j) = test_dir_of(k)

TimesDone == pc = "done" /\ cmd_args.time

SlowerLines(label, k) ==
  {j \in 1..Len(out) :
     out[j].kind = "slower in" /\ out[j].label = label /\ out[j].key = k}

\* the condition of the claim, for sums a and b in tenths
Flagged(a, b) ==
  \/ a - b > cmd_args.time_abs * 10
  \/ b = 0
  \/ b # 0 /\ a * 10 > cmd_args.time_ratio * b

TimingExact(A, B, label) ==
  \A k \in DOMAIN A.val \cup DOMAIN B.val :
    IF k \in DOMAIN A.val /\ k \in DOMAIN B.val
    THEN LET a == sum_times(A.val[k])
             b == sum_times(B.val[k])
         IN /\ Cardinality(SlowerLines(label, k)) = (IF Flagged(a, b) THEN 1 ELSE 0)
            /\ \A j \in SlowerLines(label, k) : out[j].ratio.inf <=> b = 0
            /\ (b = 0 /\ a > 0) => SlowerLines(label, k) # {}
    ELSE SlowerLines(label, k) = {}

\* C6: a key present in both groups is reported "slower in A" exactly when
\* sumA - sumB > time_abs or ratio > time_ratio, the ratio being infinite
\* when sumB = 0; with sumB = 0 and sumA > 0 it is always reported; a key of
\* one group only is never reported.
TimingDifferExact ==
  TimesDone => TimingExact(tests1, tests2, "1") /\ TimingExact(tests2, tests1, "2")

\* C6 witness: a key reported "slower in 1" with an infinite ratio and not
\* reported "slower in 2", next to a key of group 1 only.
TimingWitness ==
  /\ TimesDone
  /\ \E j \in 1..Len(out) :
       /\ out[j].kind = "slower in" /\ out[j].label = "1"
       /\ out[j].ratio.inf /\ out[j].v1 > 0
       /\ SlowerLines("2", out[j].key) = {}
  /\ \E k \in DOMAIN tests1.val : k \notin DOMAIN tests2.val

\* C9: with --zero-first the records of group 1 carry time 0, those of group 2
\* their parsed times, and time_abs is 0 whatever was given; with -t every key
\* of both groups whose group-2 sum is not zero is reported "slower in 2" and
\* not "slower in 1".
ZeroFirstMode ==
  cmd_args.zero_first =>
    /\ pc # "parsed" => cmd_args.time_abs = 0
    /\ \A k \in DOMAIN tests1.val : \A i \in 1..Len(tests1.val[k]) :
         tests1.val[k][i][2] = 0
    /\ Merged =>
         \A k \in DOMAIN tests2.val : \A i \in 1..Len(tests2.val[k]) :
           \E f \in 2..(idx - 1) : \E n \in 1..Len(cmd_args.files[f]) :
             /\ cmd_args.files[f][n].name = tests2.val[k][i][1]
             /\ float(cmd_args.files[f][n].time).val = tests2.val[k][i][2]
    /\ TimesDone =>
         \A k \in DOMAIN tests1.val \cap DOMAIN tests2.val :
           sum_times(tests2.val[k]) # 0 =>
             SlowerLines("2", k) # {} /\ SlowerLines("1", k) = {}

\* C9 witness: a --zero-first -t run given --time-abs 1, whose first file
\* records a nonzero time under a key that group 2 has with a nonzero sum.
ZeroFirstWitness ==
  /\ TimesDone
  /\ cmd_args.zero_first
  /\ cmd_args.time_ratio = 0
  /\ \E n \in 1..Len(cmd_args.files[1]) :
       /\ "time" \in DOMAIN cmd_args.files[1][n]
       /\ float(cmd_args.files[1][n].time).ok
       /\ float(cmd_args.files[1][n].time).val > 0
  /\ \E k \in DOMAIN tests1.val \cap DOMAIN tests2.val :
       sum_times(tests2.val[k]) > 0

-----------------------------------------------------------------------------
\* Properties of gcbuild

\* os.environ.get(k) before the with block was entered
Before(k) ==
  IF encodekey(k) \in DOMAIN restore.dict
  THEN [some |-> TRUE, v |-> restore.dict[encodekey(k)]] ELSE [some |-> FALSE]

\* os.environ.get(k) now
Now(k) ==
  IF encodekey(k) \in DOMAIN environ
  THEN [some |-> TRUE, v |-> environ[encodekey(k)]] ELSE [some |-> FALSE]

\* C10: while the harnesses run complus_gcname is clrgcexp_<save_name>.dll;
\* once the with block is left, normally or by an exception, every managed
\* variable has the value it had before the block, or is absent if it was
\* absent, and no other variable was changed by entering or leaving.
EnvRestored ==
  restore.set =>
    /\ gpc \in {"rf", "micro", "asp", "leaving", "raising"} =>
         /\ Now(complus_gcname) = [some |-> TRUE, v |-> gc_name]
         /\ \A x \in (DOMAIN environ \cup DOMAIN restore.dict) \ {encodekey(complus_gcname)} :
              x \in DOMAIN environ /\ x \in DOMAIN restore.dict
                /\ environ[x] = restore.dict[x]
    /\ gpc \in {"returned", "raised"} =>
         /\ Now(complus_gcname) = Before(complus_gcname)
         /\ environ = restore.dict

====
